---- MODULE Spec2Model ----
(***************************************************************************)
(* Model of mocks.go of curator.go: the stub doubles of the ZooKeeper      *)
(* connection, dialer and compression provider, and the test orchestrator  *)
(* mockZookeeperClient.Test that drives a client through one harness run.  *)
(***************************************************************************)
EXTENDS Integers, Sequences, FiniteSets, TLC

VARIABLES
    pc,          \* position of the orchestrator inside Test ("doubles" when only the doubles are exercised)
    expected,    \* per double: mock.Mock.ExpectedCalls, in programming order
    called,      \* per double: mock.Mock.Calls, as the set of (method, args) served
    operations,  \* mockConn.operations
    log,         \* per double: whether the log hook is set
    logLines,    \* the trace lines handed to the log hook, in order
    lastCall,    \* observation of the latest invocation on a double
    multiLog,    \* the sub-operation lists of the Multi invocations made so far
    failures,    \* the t.Errorf reports of the run
    callback,    \* the callback value handed to Test: its kind and parameter types
    args,        \* the reflect.Value slice built by Test
    waiting,     \* local variable waiting of Test
    wg,          \* counter of mockZookeeperClient.wg
    events,      \* state of the channel mockZookeeperClient.events
    client,      \* lifecycle state of the client built by Test
    bg,          \* state of the background continuation spawned by the callback
    history,     \* orchestration events of the run, in order
    cbMade,      \* how many Dial and Close invocations and channel closes the callback and its continuation made
    nOps,        \* number of operations made on the doubles by the callback, its continuation or the test
    universe,    \* the operations under test when only the doubles are exercised
    twin,        \* a second set of doubles given the same calls with the opposite log hook setting
    racers,      \* the goroutines inside mockConn.Multi: position, ops and the slice header each read
    building     \* per goroutine of a run: the expectation it is inside On(...).Return(...).Once() of,
                 \* or the expectation that served the call whose trace line it has yet to write

vars == <<pc, expected, called, operations, log, logLines, lastCall, multiLog,
          failures, callback, args, waiting, wg, events, client, bg, history,
          cbMade, nOps, universe, twin, racers, building>>

harnessVars == <<pc, failures, callback, args, waiting, wg, events, client, bg,
                 history, cbMade, nOps>>

----------------------------------------------------------------------------
(* Bounds *)

MaxParams == 2      \* longest callback parameter list
MaxCbOps == 2       \* operations made by the callback and its continuation
MaxCbExpect == 1    \* expectations programmed by the callback and its continuation
MaxExpect == 2      \* expectations programmed on one double when exercised alone
MaxCalls == 2       \* invocations made on the doubles when exercised alone
MaxRacers == 2      \* goroutines calling Multi on one connection double
MaxRaceCalls == 3   \* Multi invocations made by those goroutines together

----------------------------------------------------------------------------
(* Values with their dynamic type, as held in interface{} *)

V(t, v) == [type |-> t, val |-> v]
Nil == V("nil", <<"nil", 0>>)
Panic == V("panic", <<"panic", 0>>)

Doubles == {"conn", "dialer", "compress"}

Min(S) == CHOOSE x \in S : \A y \in S : x <= y

RECURSIVE Flatten(_)
Flatten(ss) == IF ss = <<>> THEN <<>> ELSE Head(ss) \o Flatten(Tail(ss))

----------------------------------------------------------------------------
(* The mocking substrate: expectation table of one double *)

\* the three calls of On(method, args...).Return(ret...).Once(), each under the mock's
\* lock: On appends the expectation with no results and unlimited repeatability,
\* Return sets its results, Once sets its repeatability to one call
OnCall(exps, method, a) ==
    Append(exps, [method |-> method, args |-> a, ret |-> <<>>, rep |-> 0, total |-> 0])
ReturnCall(exps, i, ret) == [exps EXCEPT ![i].ret = ret]
OnceCall(exps, i) == [exps EXCEPT ![i].rep = 1]

\* On(method, args...).Return(ret...) with Repeatability rep (1 after Once(), 0 unlimited)
On(exps, method, a, ret, rep) ==
    Append(exps, [method |-> method, args |-> a, ret |-> ret, rep |-> rep, total |-> 0])

\* index of the first expectation of that method, not exhausted, with equal arguments; 0 if none
FindExpectedCall(exps, method, a) ==
    LET idx == {i \in 1..Len(exps) :
                  /\ exps[i].method = method
                  /\ exps[i].rep > -1
                  /\ exps[i].args = a}
    IN IF idx = {} THEN 0 ELSE Min(idx)

\* consumption of one expectation by a matching call
Consume(e) ==
    IF e.rep = 1 THEN [e EXCEPT !.rep = -1, !.total = @ + 1]
    ELSE IF e.rep > 1 THEN [e EXCEPT !.rep = @ - 1, !.total = @ + 1]
    ELSE [e EXCEPT !.total = @ + 1]

MethodWasCalled(calls, method, a) == <<method, a>> \in calls

\* an expectation AssertExpectations reports
Unmet(calls, e) ==
    \/ ~MethodWasCalled(calls, e.method, e.args) /\ e.total = 0
    \/ e.rep > 0

AssertExpectationsOK(exps, calls) ==
    \A i \in 1..Len(exps) : ~Unmet(calls, exps[i])

\* accessors of mock.Arguments (1-based here)
ArgGet(ret, i) == IF i \in 1..Len(ret) THEN ret[i] ELSE Panic
ArgBool(ret, i) == IF ArgGet(ret, i).type = "bool" THEN ArgGet(ret, i) ELSE Panic
ArgString(ret, i) == IF ArgGet(ret, i).type = "string" THEN ArgGet(ret, i) ELSE Panic
ArgError(ret, i) ==
    IF ArgGet(ret, i) = Panic THEN Panic
    ELSE IF ArgGet(ret, i).type = "nil" THEN Nil
    ELSE IF ArgGet(ret, i).type = "error" THEN ArgGet(ret, i) ELSE Panic

\* x, _ := v.(T): the value when its dynamic type is T, the zero value otherwise
As(v, T) == IF v = Panic THEN Panic ELSE IF v.type = T THEN v ELSE Nil

\* v.(ZookeeperConnection): any value implementing the interface
AsZookeeperConnection(v) ==
    IF v = Panic THEN Panic ELSE IF v.type = "*mockConn" THEN v ELSE Nil

----------------------------------------------------------------------------
(* Values the doubles are programmed with *)

TheConn == V("*mockConn", <<"conn", 0>>)
TheEvents == V("chan zk.Event", <<"events", 0>>)

----------------------------------------------------------------------------
(* The doubles: what each operation returns from the Arguments its Called gave *)

AddAuth(ret) == <<ArgError(ret, 1)>>
Close(ret) == <<>>
Create(ret) == <<ArgString(ret, 1), ArgError(ret, 2)>>
Exists(ret) == <<ArgBool(ret, 1), As(ArgGet(ret, 2), "*zk.Stat"), ArgError(ret, 3)>>
ExistsW(ret) ==
    <<ArgBool(ret, 1), As(ArgGet(ret, 2), "*zk.Stat"),
      As(ArgGet(ret, 3), "chan zk.Event"), ArgError(ret, 4)>>
Delete(ret) == <<ArgError(ret, 1)>>
Get(ret) == <<As(ArgGet(ret, 1), "[]byte"), As(ArgGet(ret, 2), "*zk.Stat"), ArgError(ret, 3)>>
GetW(ret) ==
    <<As(ArgGet(ret, 1), "[]byte"), As(ArgGet(ret, 2), "*zk.Stat"),
      As(ArgGet(ret, 3), "chan zk.Event"), ArgError(ret, 4)>>
Set(ret) == <<As(ArgGet(ret, 1), "*zk.Stat"), ArgError(ret, 2)>>
Children(ret) ==
    <<As(ArgGet(ret, 1), "[]string"), As(ArgGet(ret, 2), "*zk.Stat"), ArgError(ret, 3)>>
ChildrenW(ret) ==
    <<As(ArgGet(ret, 1), "[]string"), As(ArgGet(ret, 2), "*zk.Stat"),
      As(ArgGet(ret, 3), "chan zk.Event"), ArgError(ret, 4)>>
GetACL(ret) ==
    <<As(ArgGet(ret, 1), "[]zk.ACL"), As(ArgGet(ret, 2), "*zk.Stat"), ArgError(ret, 3)>>
SetACL(ret) == <<As(ArgGet(ret, 1), "*zk.Stat"), ArgError(ret, 2)>>
Multi(ret) == <<As(ArgGet(ret, 1), "[]zk.MultiResponse"), ArgError(ret, 2)>>
Sync(ret) == <<ArgString(ret, 1), ArgError(ret, 2)>>
Dial(ret) ==
    <<AsZookeeperConnection(ArgGet(ret, 1)), As(ArgGet(ret, 2), "chan zk.Event"),
      ArgError(ret, 3)>>
Compress(ret) == <<As(ArgGet(ret, 1), "[]byte"), ArgError(ret, 2)>>
Decompress(ret) == <<As(ArgGet(ret, 1), "[]byte"), ArgError(ret, 2)>>

\* v.(EnsurePath): any value implementing the interface
AsEnsurePath(v) ==
    IF v = Panic THEN Panic ELSE IF v.type = "*mockEnsurePath" THEN v ELSE Nil

\* mockEnsurePath.Ensure, mockEnsurePath.ExcludingLast and mockEnsurePathHelper.Ensure
\* (named HelperEnsure here: the two Ensure methods belong to different doubles)
Ensure(ret) == <<ArgError(ret, 1)>>
ExcludingLast(ret) == <<AsEnsurePath(ArgGet(ret, 1))>>
HelperEnsure(ret) == <<ArgError(ret, 1)>>

ConnMethods ==
    {"AddAuth", "Close", "Create", "Exists", "ExistsW", "Delete", "Get", "GetW", "Set",
     "Children", "ChildrenW", "GetACL", "SetACL", "Multi", "Sync"}
DialerMethods == {"Dial"}
CompressMethods == {"Compress", "Decompress"}
EnsurePathMethods == {"Ensure", "ExcludingLast"}
EnsurePathHelperMethods == {"HelperEnsure"}
MethodsOf(d) ==
    IF d = "conn" THEN ConnMethods ELSE IF d = "dialer" THEN DialerMethods
    ELSE IF d = "ensurePath" THEN EnsurePathMethods
    ELSE IF d = "ensurePathHelper" THEN EnsurePathHelperMethods ELSE CompressMethods

\* the values method m of a double hands back for the Arguments ret
Returns(m, ret) ==
    CASE m = "AddAuth" -> AddAuth(ret)
      [] m = "Close" -> Close(ret)
      [] m = "Create" -> Create(ret)
      [] m = "Exists" -> Exists(ret)
      [] m = "ExistsW" -> ExistsW(ret)
      [] m = "Delete" -> Delete(ret)
      [] m = "Get" -> Get(ret)
      [] m = "GetW" -> GetW(ret)
      [] m = "Set" -> Set(ret)
      [] m = "Children" -> Children(ret)
      [] m = "ChildrenW" -> ChildrenW(ret)
      [] m = "GetACL" -> GetACL(ret)
      [] m = "SetACL" -> SetACL(ret)
      [] m = "Multi" -> Multi(ret)
      [] m = "Sync" -> Sync(ret)
      [] m = "Dial" -> Dial(ret)
      [] m = "Compress" -> Compress(ret)
      [] m = "Decompress" -> Decompress(ret)
      [] m = "Ensure" -> Ensure(ret)
      [] m = "ExcludingLast" -> ExcludingLast(ret)
      [] m = "HelperEnsure" -> HelperEnsure(ret)

\* the operations that hand a trace line to the log hook when one is set
Logs(m) ==
    m \in {"Create", "Exists", "ExistsW", "Delete", "Children", "ChildrenW", "Multi",
           "Dial", "Compress", "Decompress", "Ensure", "ExcludingLast", "HelperEnsure"}

\* the arguments an operation hands to Called: Multi hands its whole ops slice as one
CalledArgs(m, a) == IF m = "Multi" THEN <<a>> ELSE a

\* variant: Multi overwrites the record with its own ops
MultiRecordReplacing(ops_, ops) == ops

\* mockConn.operations after Multi(ops...), before the lookup
MultiRecord(ops_, ops) == ops_ \o ops

----------------------------------------------------------------------------
(* Inputs: the arguments the operations are invoked with, and the canned     *)
(* results they are programmed with                                          *)

PathMethods == {"Exists", "ExistsW", "Get", "GetW", "Children", "ChildrenW", "GetACL", "Sync"}

\* the argument lists method m is invoked with (for Multi: the ops slices)
ArgsOf(m) ==
    IF m \in PathMethods THEN {<<"/a">>, <<"/b">>}
    ELSE IF m = "AddAuth" THEN {<<"digest", "pw">>, <<"digest", "other">>}
    ELSE IF m = "Create" THEN {<<"/a", "data", "0", "acl">>, <<"/b", "data", "0", "acl">>}
    ELSE IF m = "Delete" THEN {<<"/a", "1">>, <<"/a", "2">>}
    ELSE IF m = "Set" THEN {<<"/a", "data", "1">>, <<"/a", "data", "2">>}
    ELSE IF m = "SetACL" THEN {<<"/a", "acl", "1">>, <<"/a", "acl", "2">>}
    ELSE IF m = "Multi" THEN {<<"op1">>, <<"op1", "op2">>}
    ELSE IF m = "Dial" THEN {<<"connectString", "DEFAULT_CONNECTION_TIMEOUT", "false">>,
                             <<"otherString", "DEFAULT_CONNECTION_TIMEOUT", "false">>}
    ELSE IF m \in {"Compress", "Decompress"} THEN {<<"/a", "data">>, <<"/b", "data">>}
    ELSE IF m = "Ensure" THEN {<<"client1">>, <<"client2">>}
    ELSE IF m = "HelperEnsure" THEN {<<"client1", "/a", "true">>, <<"client1", "/a", "false">>}
    ELSE {<<>>}

\* the declared result types of method m
ResultTypes(m) ==
    CASE m \in {"AddAuth", "Delete"} -> <<"error">>
      [] m = "Close" -> <<>>
      [] m \in {"Create", "Sync"} -> <<"string", "error">>
      [] m = "Exists" -> <<"bool", "*zk.Stat", "error">>
      [] m = "ExistsW" -> <<"bool", "*zk.Stat", "<-chan zk.Event", "error">>
      [] m = "Get" -> <<"[]byte", "*zk.Stat", "error">>
      [] m = "GetW" -> <<"[]byte", "*zk.Stat", "<-chan zk.Event", "error">>
      [] m \in {"Set", "SetACL"} -> <<"*zk.Stat", "error">>
      [] m = "Children" -> <<"[]string", "*zk.Stat", "error">>
      [] m = "ChildrenW" -> <<"[]string", "*zk.Stat", "<-chan zk.Event", "error">>
      [] m = "GetACL" -> <<"[]zk.ACL", "*zk.Stat", "error">>
      [] m = "Multi" -> <<"[]zk.MultiResponse", "error">>
      [] m = "Dial" -> <<"ZookeeperConnection", "<-chan zk.Event", "error">>
      [] m \in {"Compress", "Decompress"} -> <<"[]byte", "error">>
      [] m \in {"Ensure", "HelperEnsure"} -> <<"error">>
      [] m = "ExcludingLast" -> <<"EnsurePath">>

\* a value assignable to result type T: flavour "ok" a success, "err" an error with
\* nil data, "recv" a success whose channel is held as a receive-only channel
Sample(T, fl, k) ==
    IF T = "error" THEN (IF fl = "err" THEN V("error", <<"error", k>>) ELSE Nil)
    ELSE IF T \in {"bool", "string"} THEN V(T, <<T, k>>)
    ELSE IF fl = "err" THEN Nil
    ELSE IF T = "<-chan zk.Event"
         THEN (IF fl = "recv" THEN V("<-chan zk.Event", <<"events", k>>)
               ELSE V("chan zk.Event", <<"events", k>>))
    ELSE IF T = "ZookeeperConnection" THEN TheConn
    ELSE IF T = "EnsurePath" THEN V("*mockEnsurePath", <<"ensurePath", k>>)
    ELSE V(T, <<T, k>>)

Canned(m, fl, k) == [i \in 1..Len(ResultTypes(m)) |-> Sample(ResultTypes(m)[i], fl, k)]

HasChan(m) == \E i \in 1..Len(ResultTypes(m)) : ResultTypes(m)[i] = "<-chan zk.Event"

FlavoursOf(m) ==
    {"ok"} \cup (IF m = "Close" THEN {} ELSE {"err"}) \cup (IF HasChan(m) THEN {"recv"} ELSE {})

\* an operation of the same double taking arguments of the same shape, when there is one
Rival(m) ==
    CASE m = "Exists" -> "ExistsW"
      [] m = "ExistsW" -> "Exists"
      [] m = "Get" -> "Children"
      [] m = "Children" -> "Get"
      [] m = "GetW" -> "ChildrenW"
      [] m = "ChildrenW" -> "GetW"
      [] m = "GetACL" -> "Sync"
      [] m = "Sync" -> "GetACL"
      [] m = "Compress" -> "Decompress"
      [] m = "Decompress" -> "Compress"
      [] m = "Multi" -> "Get"
      [] m = "Close" -> "Get"
      [] m = "Ensure" -> "ExcludingLast"
      [] m = "ExcludingLast" -> "Ensure"
      [] OTHER -> m

DoubleOf(m) ==
    IF m \in DialerMethods THEN "dialer" ELSE IF m \in CompressMethods THEN "compress"
    ELSE IF m \in EnsurePathMethods THEN "ensurePath"
    ELSE IF m \in EnsurePathHelperMethods THEN "ensurePathHelper" ELSE "conn"

AllMethods == ConnMethods \cup DialerMethods \cup CompressMethods

Universes ==
    {[focus |-> m, rival |-> Rival(m), flavour |-> fl, rep |-> r] :
        m \in AllMethods, fl \in {"ok", "err", "recv"}, r \in {0, 1}}

NoUniverse == [focus |-> "none", rival |-> "none", flavour |-> "ok", rep |-> 1]

\* no second set of doubles, no goroutine inside Multi
NoTwin == "none"
NoRacers == <<>>

\* the goroutine running Test (and the callback), and the continuation the callback starts
Threads == {"main", "bg"}

\* a goroutine is inside no On(...).Return(...).Once() chain and owes no trace line
NoChain == [double |-> "none", idx |-> 0, stage |-> "none"]
NoChains == [th \in Threads |-> NoChain]
\* nothing made by the callback yet
NoCbMade == [m \in {"Dial", "Close", "close(events)"} |-> 0]
NoBg == [state |-> "none", held |-> <<>>]

----------------------------------------------------------------------------
(* One invocation of operation m of double d with arguments a *)

NoCall == [double |-> "none", method |-> "none", args |-> <<>>, matched |-> 0,
           panicked |-> FALSE, result |-> <<>>]

\* variant: the lookup goes by operation name alone
MatchedByName(d, m, a) ==
    LET idx == {i \in 1..Len(expected[d]) :
                  expected[d][i].method = m /\ expected[d][i].rep > -1}
    IN IF idx = {} THEN 0 ELSE Min(idx)

Matched(d, m, a) == FindExpectedCall(expected[d], m, CalledArgs(m, a))

\* the values the operation computes from the matched expectation
Computed(d, m, a) ==
    IF Matched(d, m, a) = 0 THEN <<>> ELSE Returns(m, expected[d][Matched(d, m, a)].ret)

\* the invocation ends in a panic: no expectation matched, or an accessor panicked
Panics(d, m, a) ==
    \/ Matched(d, m, a) = 0
    \/ \E j \in 1..Len(Computed(d, m, a)) : Computed(d, m, a)[j] = Panic

\* variant: Multi records its ops only once its lookup succeeded
RecordedAfterLookup(d, m, a) ==
    IF m = "Multi" /\ Matched(d, m, a) # 0 THEN MultiRecord(operations, a) ELSE operations

\* mockConn.operations after the invocation: Multi records its ops before its lookup
\* variant: the record is appended inside the branch taken when the log hook is set
RecordedWhenTraced(d, m, a) ==
    IF m = "Multi" /\ log[d] THEN MultiRecord(operations, a) ELSE operations

Recorded(d, m, a) == IF m = "Multi" THEN MultiRecord(operations, a) ELSE operations

\* the operation up to the return of Called: the record of Multi, then the lookup, the
\* consumption and the record of the call under the substrate's lock, and the results
Serve(d, m, a) ==
    /\ operations' = Recorded(d, m, a)
    /\ multiLog' = IF m = "Multi" THEN Append(multiLog, a) ELSE multiLog
    /\ expected' = IF Matched(d, m, a) = 0 THEN expected
                   ELSE [expected EXCEPT ![d][Matched(d, m, a)] = Consume(@)]
    /\ called' = IF Matched(d, m, a) = 0 THEN called
                 ELSE [called EXCEPT ![d] = @ \cup {<<m, CalledArgs(m, a)>>}]
    /\ lastCall' = [double |-> d, method |-> m, args |-> CalledArgs(m, a),
                    matched |-> Matched(d, m, a), panicked |-> Panics(d, m, a),
                    result |-> IF Panics(d, m, a) THEN <<>> ELSE Computed(d, m, a)]

\* the operation hands a trace line to the log hook after Called has returned, outside
\* any lock
Traces(d, m, a) == ~Panics(d, m, a) /\ log[d] /\ Logs(m)

\* a whole operation made with no other goroutine running
Invoke(d, m, a) ==
    /\ Serve(d, m, a)
    /\ logLines' = IF Traces(d, m, a) THEN Append(logLines, m) ELSE logLines

----------------------------------------------------------------------------
(* The doubles exercised alone: a test programs and invokes the operations   *)
(* of one universe directly                                                  *)

InitDoubles ==
    /\ pc = "doubles"
    /\ expected = [d \in Doubles |-> <<>>]
    /\ called = [d \in Doubles |-> {}]
    /\ operations = <<>>
    /\ log \in {[d \in Doubles |-> FALSE], [d \in Doubles |-> TRUE]}
    /\ logLines = <<>>
    /\ lastCall = NoCall
    /\ multiLog = <<>>
    /\ failures = {}
    /\ callback = [kind |-> "nil", sig |-> <<>>]
    /\ args = <<>>
    /\ waiting = FALSE
    /\ wg = 0
    /\ events = "open"
    /\ client = "none"
    /\ bg = NoBg
    /\ history = <<>>
    /\ cbMade = NoCbMade
    /\ nOps = 0
    /\ universe \in {u \in Universes : u.flavour \in FlavoursOf(u.focus)}
    /\ twin = NoTwin
    /\ racers = NoRacers
    /\ building = NoChains

\* the test programs one expectation: On(m, a...).Return(canned...) with the universe's policy
DProgram ==
    /\ pc = "doubles"
    /\ \E m \in {universe.focus, universe.rival} : \E a \in ArgsOf(m) :
          LET d == DoubleOf(m) IN
          /\ Len(expected[d]) < MaxExpect
          /\ expected' = [expected EXCEPT ![d] =
                 On(@, m, CalledArgs(m, a),
                    Canned(m, IF universe.flavour \in FlavoursOf(m) THEN universe.flavour ELSE "ok",
                           Len(@) + 1),
                    universe.rep)]
    /\ UNCHANGED <<called, operations, log, logLines, lastCall, multiLog, universe, twin, racers, building>>
    /\ UNCHANGED harnessVars

\* the test invokes one operation of the universe
DInvoke ==
    /\ pc = "doubles"
    /\ nOps < MaxCalls
    /\ \E m \in {universe.focus, universe.rival} : \E a \in ArgsOf(m) :
          Invoke(DoubleOf(m), m, a)
    /\ nOps' = nOps + 1
    /\ UNCHANGED <<log, universe, twin, racers, pc, failures, callback, args, waiting, wg, events,
                   client, bg, history, cbMade, building>>

NextDoubles == DProgram \/ DInvoke

SpecDoubles == InitDoubles /\ [][NextDoubles]_vars

----------------------------------------------------------------------------
(* Tracing: two sets of doubles, the ensure-path doubles included, are       *)
(* programmed alike and given the same calls; one has its log hooks set,     *)
(* the other has none                                                        *)

TraceDoubles == Doubles \cup {"ensurePath", "ensurePathHelper"}
TraceMethods == AllMethods \cup EnsurePathMethods \cup EnsurePathHelperMethods

TraceUniverses ==
    {[focus |-> m, rival |-> Rival(m), flavour |-> fl, rep |-> r] :
        m \in TraceMethods, fl \in {"ok", "err", "recv"}, r \in {0, 1}}

\* the second set of doubles after operation m of double d is invoked with a
TwinInvoke(tw, d, m, a) ==
    LET i == FindExpectedCall(tw.expected[d], m, CalledArgs(m, a))
        res == IF i = 0 THEN <<>> ELSE Returns(m, tw.expected[d][i].ret)
        panics == i = 0 \/ \E j \in 1..Len(res) : res[j] = Panic
    IN  [tw EXCEPT
           !.operations = IF m = "Multi" THEN MultiRecord(@, a) ELSE @,
           !.expected = IF i = 0 THEN @ ELSE [@ EXCEPT ![d][i] = Consume(@)],
           !.called = IF i = 0 THEN @ ELSE [@ EXCEPT ![d] = @ \cup {<<m, CalledArgs(m, a)>>}],
           !.logLines = IF ~panics /\ tw.log[d] /\ Logs(m) THEN Append(@, m) ELSE @,
           !.lastCall = [double |-> d, method |-> m, args |-> CalledArgs(m, a),
                         matched |-> i, panicked |-> panics,
                         result |-> IF panics THEN <<>> ELSE res]]

InitTrace ==
    /\ pc = "doubles"
    /\ expected = [d \in TraceDoubles |-> <<>>]
    /\ called = [d \in TraceDoubles |-> {}]
    /\ operations = <<>>
    /\ log \in {[d \in TraceDoubles |-> FALSE], [d \in TraceDoubles |-> TRUE]}
    /\ logLines = <<>>
    /\ lastCall = NoCall
    /\ multiLog = <<>>
    /\ failures = {}
    /\ callback = [kind |-> "nil", sig |-> <<>>]
    /\ args = <<>>
    /\ waiting = FALSE
    /\ wg = 0
    /\ events = "open"
    /\ client = "none"
    /\ bg = NoBg
    /\ history = <<>>
    /\ cbMade = NoCbMade
    /\ nOps = 0
    /\ universe \in {u \in TraceUniverses : u.flavour \in FlavoursOf(u.focus)}
    /\ twin = [expected |-> expected, called |-> called, operations |-> operations,
               log |-> [d \in TraceDoubles |-> ~log[d]], logLines |-> <<>>,
               lastCall |-> NoCall]
    /\ racers = NoRacers
    /\ building = NoChains

\* the test programs the same expectation on both sets of doubles
TProgram ==
    /\ pc = "doubles"
    /\ \E m \in {universe.focus, universe.rival} : \E a \in ArgsOf(m) :
          LET d == DoubleOf(m)
              e == Canned(m, IF universe.flavour \in FlavoursOf(m) THEN universe.flavour ELSE "ok",
                          Len(expected[d]) + 1)
          IN
          /\ Len(expected[d]) < MaxExpect
          /\ expected' = [expected EXCEPT ![d] = On(@, m, CalledArgs(m, a), e, universe.rep)]
          /\ twin' = [twin EXCEPT !.expected[d] = On(@, m, CalledArgs(m, a), e, universe.rep)]
    /\ UNCHANGED <<called, operations, log, logLines, lastCall, multiLog, universe, racers, building>>
    /\ UNCHANGED harnessVars

\* the test invokes the same operation on both sets of doubles
TInvoke ==
    /\ pc = "doubles"
    /\ nOps < MaxCalls
    /\ \E m \in {universe.focus, universe.rival} : \E a \in ArgsOf(m) :
          /\ Invoke(DoubleOf(m), m, a)
          /\ twin' = TwinInvoke(twin, DoubleOf(m), m, a)
    /\ nOps' = nOps + 1
    /\ UNCHANGED <<log, universe, racers, pc, failures, callback, args, waiting, wg, events,
                   client, bg, history, cbMade, building>>

NextTrace == TProgram \/ TInvoke

SpecTrace == InitTrace /\ [][NextTrace]_vars

----------------------------------------------------------------------------
(* Concurrent Multi: the test goroutine and background tasks of the client   *)
(* call Multi on one connection double. Line 207 reads c.operations and      *)
(* writes the appended slice back with no lock held; Called takes the        *)
(* substrate's lock and is one step; the trace line follows outside it.      *)

Goroutines == 1..MaxRacers

\* both argument lists of Multi are programmed, each for any number of calls
RaceExpected ==
    On(On(<<>>, "Multi", CalledArgs("Multi", <<"op1">>), Canned("Multi", "ok", 1), 0),
       "Multi", CalledArgs("Multi", <<"op1", "op2">>), Canned("Multi", "ok", 2), 0)

InitRace ==
    /\ pc = "doubles"
    /\ expected = [d \in Doubles |-> IF d = "conn" THEN RaceExpected ELSE <<>>]
    /\ called = [d \in Doubles |-> {}]
    /\ operations = <<>>
    /\ log \in {[d \in Doubles |-> FALSE], [d \in Doubles |-> TRUE]}
    /\ logLines = <<>>
    /\ lastCall = NoCall
    /\ multiLog = <<>>
    /\ failures = {}
    /\ callback = [kind |-> "nil", sig |-> <<>>]
    /\ args = <<>>
    /\ waiting = FALSE
    /\ wg = 0
    /\ events = "open"
    /\ client = "none"
    /\ bg = NoBg
    /\ history = <<>>
    /\ cbMade = NoCbMade
    /\ nOps = 0
    /\ universe = NoUniverse
    /\ twin = NoTwin
    /\ racers = [g \in Goroutines |-> [at |-> "idle", ops |-> <<>>, seen |-> <<>>]]
    /\ building = NoChains

\* line 207, first half: goroutine g enters Multi(ops...) and reads c.operations
MRead(g) ==
    /\ racers[g].at = "idle"
    /\ nOps < MaxRaceCalls
    /\ \E ops \in ArgsOf("Multi") :
          racers' = [racers EXCEPT ![g] = [at |-> "read", ops |-> ops, seen |-> operations]]
    /\ nOps' = nOps + 1
    /\ UNCHANGED <<expected, called, operations, logLines, lastCall, multiLog, log, pc,
                   failures, callback, args, waiting, wg, events, client, bg, history, cbMade,
                   universe, twin, building>>

\* line 207, second half: the slice appended to what g read is stored in c.operations
MWrite(g) ==
    /\ racers[g].at = "read"
    /\ operations' = MultiRecord(racers[g].seen, racers[g].ops)
    /\ racers' = [racers EXCEPT ![g].at = "written"]
    /\ UNCHANGED <<expected, called, log, logLines, lastCall, multiLog, harnessVars,
                   universe, twin, building>>

\* lines 209-212: Called(ops) under the substrate's lock, and the results
MCalled(g) ==
    /\ racers[g].at = "written"
    /\ LET ops == racers[g].ops
           i == Matched("conn", "Multi", ops)
       IN  /\ expected' = [expected EXCEPT !["conn"][i] = Consume(@)]
           /\ called' = [called EXCEPT !["conn"] = @ \cup {<<"Multi", CalledArgs("Multi", ops)>>}]
           /\ multiLog' = Append(multiLog, ops)
           /\ lastCall' = [double |-> "conn", method |-> "Multi",
                           args |-> CalledArgs("Multi", ops), matched |-> i,
                           panicked |-> FALSE, result |-> Computed("conn", "Multi", ops)]
    /\ racers' = [racers EXCEPT ![g].at = "called"]
    /\ UNCHANGED <<operations, logLines, log, harnessVars, universe, twin, building>>

\* lines 214-218: the trace line when the log hook is set, outside any lock; g returns
\* from Multi
MTrace(g) ==
    /\ racers[g].at = "called"
    /\ logLines' = IF log["conn"] THEN Append(logLines, "Multi") ELSE logLines
    /\ racers' = [racers EXCEPT ![g] = [at |-> "idle", ops |-> <<>>, seen |-> <<>>]]
    /\ UNCHANGED <<expected, called, operations, lastCall, multiLog, log, harnessVars,
                   universe, twin, building>>

NextRace == \E g \in Goroutines : MRead(g) \/ MWrite(g) \/ MCalled(g) \/ MTrace(g)

SpecRace == InitRace /\ [][NextRace]_vars

----------------------------------------------------------------------------
(* The orchestrator: mockZookeeperClient.Test                                *)

\* parameter types a callback may declare; the last two are foreign to Test
RecognizedTypes ==
    {"*CuratorFrameworkBuilder", "CuratorFramework", "ZookeeperConnection", "*mockConn",
     "ZookeeperDialer", "*mockZookeeperDialer", "*mockCompressionProvider",
     "chan zk.Event", "*sync.WaitGroup"}
ForeignTypes == {"CompressionProvider", "string"}
ParamTypes == RecognizedTypes \cup ForeignTypes

Signatures == UNION {[1..n -> ParamTypes] : n \in 0..MaxParams}

\* the configuration newMockZookeeperClient builds
ConnectString == "connectString"
CanBeReadOnly == "false"
DefaultTimeout == "DEFAULT_CONNECTION_TIMEOUT"

\* the arguments the client dials with when started: those of its configuration
ClientDialArgs == <<ConnectString, DefaultTimeout, CanBeReadOnly>>

\* client.Start(): the client dials once through its dialer; the Dial up to the return
\* of Called
ClientStart == Serve("dialer", "Dial", ClientDialArgs)

\* client.Close(): the client closes its connection once
ClientClose == Invoke("conn", "Close", <<>>)

\* variant: the abstract compression provider type is recognized too
ResolveArgAnyProvider(t) ==
    IF t = "*CuratorFrameworkBuilder" THEN "builder"
    ELSE IF t = "CuratorFramework" THEN "client"
    ELSE IF t \in {"ZookeeperConnection", "*mockConn"} THEN "conn"
    ELSE IF t \in {"ZookeeperDialer", "*mockZookeeperDialer"} THEN "dialer"
    ELSE IF t \in {"CompressionProvider", "*mockCompressionProvider"} THEN "compress"
    ELSE IF t = "chan zk.Event" THEN "events"
    ELSE IF t = "*sync.WaitGroup" THEN "wg"
    ELSE "zero Value"

\* variant: the compression case stands before the dialer case
ResolveArgCompressFirst(t) ==
    IF t = "*CuratorFrameworkBuilder" THEN "builder"
    ELSE IF t = "CuratorFramework" THEN "client"
    ELSE IF t \in {"ZookeeperConnection", "*mockConn"} THEN "conn"
    ELSE IF t \in {"ZookeeperDialer", "*mockCompressionProvider"} THEN "compress"
    ELSE IF t \in {"ZookeeperDialer", "*mockZookeeperDialer"} THEN "dialer"
    ELSE IF t = "chan zk.Event" THEN "events"
    ELSE IF t = "*sync.WaitGroup" THEN "wg"
    ELSE "zero Value"

\* the type switch of Test, cases in source order: the object a parameter type resolves to
ResolveArg(t) ==
    IF t = "*CuratorFrameworkBuilder" THEN "builder"
    ELSE IF t = "CuratorFramework" THEN "client"
    ELSE IF t \in {"ZookeeperConnection", "*mockConn"} THEN "conn"
    ELSE IF t \in {"ZookeeperDialer", "*mockZookeeperDialer"} THEN "dialer"
    ELSE IF t \in {"ZookeeperDialer", "*mockCompressionProvider"} THEN "compress"
    ELSE IF t = "chan zk.Event" THEN "events"
    ELSE IF t = "*sync.WaitGroup" THEN "wg"
    ELSE "zero Value"

\* c.wg.Add(1) of the WaitGroup case, once per slot that resolves to the wait group
WaitGroupAdds(sig) == Cardinality({i \in 1..Len(sig) : ResolveArg(sig[i]) = "wg"})

\* t.Errorf of the default case, one per unresolved slot
UnknownArgFailures(sig) ==
    {<<"unknown arg type", sig[i]>> : i \in {j \in 1..Len(sig) : ResolveArg(sig[j]) = "zero Value"}}

Init ==
    /\ pc = "start"
    /\ expected = [d \in Doubles |-> <<>>]
    /\ called = [d \in Doubles |-> {}]
    /\ operations = <<>>
    /\ log = [d \in Doubles |-> FALSE]
    /\ logLines = <<>>
    /\ lastCall = NoCall
    /\ multiLog = <<>>
    /\ failures = {}
    /\ callback \in {[kind |-> "func", sig |-> sg] : sg \in Signatures}
                    \cup {[kind |-> "not a func", sig |-> <<>>], [kind |-> "nil", sig |-> <<>>]}
    /\ args = <<>>
    /\ waiting = FALSE
    /\ wg = 0
    /\ events = "open"
    /\ client = "none"
    /\ bg = NoBg
    /\ history = <<>>
    /\ cbMade = NoCbMade
    /\ nOps = 0
    /\ universe = NoUniverse
    /\ twin = NoTwin
    /\ racers = NoRacers
    /\ building = NoChains

doubleVars == <<expected, called, operations, logLines, lastCall, multiLog>>

\* lines 378-380: the log hooks are set
TestSetLog ==
    /\ pc = "start"
    /\ log' = [d \in Doubles |-> TRUE]
    /\ pc' = "logging"
    /\ UNCHANGED <<doubleVars, failures, callback, args, waiting, wg, events, client, bg,
                   history, cbMade, nOps, universe, twin, racers, building>>

\* line 382: the client is built; building dials nothing
TestBuild ==
    /\ pc = "logging"
    /\ client' = "built"
    /\ pc' = "built"
    /\ UNCHANGED <<doubleVars, log, failures, callback, args, waiting, wg, events, bg,
                   history, cbMade, nOps, universe, twin, racers, building>>

\* goroutine th makes the On, the Return, the Once of a chain
ChainOn(th, d, m, a) ==
    /\ building[th] = NoChain
    /\ expected' = [expected EXCEPT ![d] = OnCall(@, m, a)]
    /\ building' = [building EXCEPT ![th] =
                        [double |-> d, idx |-> Len(expected[d]) + 1, stage |-> "on"]]

ChainReturn(th, ret) ==
    /\ building[th].stage = "on"
    /\ expected' = [expected EXCEPT ![building[th].double] =
                                     ReturnCall(@, building[th].idx, ret)]
    /\ building' = [building EXCEPT ![th].stage = "return"]

ChainOnce(th) ==
    /\ building[th].stage = "return"
    /\ expected' = [expected EXCEPT ![building[th].double] = OnceCall(@, building[th].idx)]
    /\ building' = [building EXCEPT ![th] = NoChain]

\* variant: the Dial is programmed before the client is built
TestProgramDialBeforeBuild ==
    /\ pc = "logging"
    /\ expected["dialer"] = <<>>
    /\ expected' = [expected EXCEPT !["dialer"] =
                       On(@, "Dial", <<ConnectString, DefaultTimeout, CanBeReadOnly>>,
                          <<TheConn, TheEvents, Nil>>, 1)]
    /\ UNCHANGED <<pc, called, operations, log, logLines, lastCall, multiLog, failures,
                   callback, args, waiting, wg, events, client, bg, history, cbMade, nOps, universe,
                   twin, racers, building>>

\* variant: the Dial is programmed with the session timeout
TestProgramDialSessionTimeout ==
    /\ pc = "built"
    /\ ChainOn("main", "dialer", "Dial", <<ConnectString, "DEFAULT_SESSION_TIMEOUT", CanBeReadOnly>>)
    /\ pc' = "dialOn"
    /\ UNCHANGED <<called, operations, log, logLines, lastCall, multiLog, failures, callback,
                   args, waiting, wg, events, client, bg, history, cbMade, nOps, universe, twin, racers>>

\* line 384, c.dialer.On("Dial", ...): the Dial expectation is entered in the dialer double
TestProgramDial ==
    /\ pc = "built"
    /\ ChainOn("main", "dialer", "Dial", <<ConnectString, DefaultTimeout, CanBeReadOnly>>)
    /\ pc' = "dialOn"
    /\ UNCHANGED <<called, operations, log, logLines, lastCall, multiLog, failures, callback,
                   args, waiting, wg, events, client, bg, history, cbMade, nOps, universe, twin, racers>>

\* line 384, .Return(c.conn, c.events, nil)
TestProgramDialReturn ==
    /\ pc = "dialOn"
    /\ ChainReturn("main", <<TheConn, TheEvents, Nil>>)
    /\ pc' = "dialReturn"
    /\ UNCHANGED <<called, operations, log, logLines, lastCall, multiLog, failures, callback,
                   args, waiting, wg, events, client, bg, history, cbMade, nOps, universe, twin, racers>>

\* line 384, .Once()
TestProgramDialOnce ==
    /\ pc = "dialReturn"
    /\ ChainOnce("main")
    /\ pc' = "programmed"
    /\ UNCHANGED <<called, operations, log, logLines, lastCall, multiLog, failures, callback,
                   args, waiting, wg, events, client, bg, history, cbMade, nOps, universe, twin, racers>>

\* line 386, client.Start() up to the return of Called inside Dial: the client dials
TestStart ==
    /\ pc = "programmed"
    /\ ClientStart
    /\ IF Panics("dialer", "Dial", ClientDialArgs)
       THEN /\ pc' = "panicked"
            /\ UNCHANGED <<client, history, cbMade, building>>
       ELSE /\ pc' = "dialled"
            /\ client' = "started"
            /\ history' = Append(history, "Dial")
            /\ building' = [building EXCEPT !["main"] =
                   [double |-> "dialer", idx |-> Matched("dialer", "Dial", ClientDialArgs),
                    stage |-> "trace"]]
    /\ UNCHANGED <<cbMade, logLines, log, failures, callback, args, waiting, wg, events, bg, nOps,
                   universe, twin, racers>>

\* line 386, the rest: Dial hands its trace line to the log hook (lines 240-242) and
\* returns, Start returns; a Start error is reported and the run goes on
TestStarted ==
    /\ pc = "dialled"
    /\ logLines' = IF log["dialer"] THEN Append(logLines, "Dial") ELSE logLines
    /\ failures' = IF Dial(expected["dialer"][building["main"].idx].ret)[3] = Nil
                   THEN failures
                   ELSE failures \cup {<<"Start", "error">>}
    /\ building' = [building EXCEPT !["main"] = NoChain]
    /\ pc' = "started"
    /\ UNCHANGED <<expected, called, operations, lastCall, multiLog, log, callback, args,
                   waiting, wg, events, client, bg, history, cbMade, nOps, universe, twin, racers>>

\* lines 388-392: the callback's type is reflected on; a nil or non-function callback panics
TestReflect ==
    /\ pc = "started"
    /\ IF callback.kind = "func"
       THEN pc' = "reflected" /\ UNCHANGED failures
       ELSE /\ pc' = "panicked"
            /\ failures' = IF callback.kind = "nil" THEN failures
                           ELSE failures \cup {<<"callback kind", callback.kind>>}
    /\ UNCHANGED <<doubleVars, log, callback, args, waiting, wg, events, client, bg,
                   history, cbMade, nOps, universe, twin, racers, building>>

\* lines 394-424: each parameter slot is resolved against the type switch
TestResolve ==
    /\ pc = "reflected"
    /\ args' = [i \in 1..Len(callback.sig) |-> ResolveArg(callback.sig[i])]
    /\ wg' = wg + WaitGroupAdds(callback.sig)
    /\ waiting' = (WaitGroupAdds(callback.sig) > 0)
    /\ failures' = failures \cup UnknownArgFailures(callback.sig)
    /\ pc' = "resolved"
    /\ UNCHANGED <<doubleVars, log, callback, events, client, bg, history, cbMade, nOps, universe, twin, racers, building>>

\* line 426: reflect Call; a zero Value among the arguments panics before the callback runs
TestCall ==
    /\ pc = "resolved"
    /\ IF \E i \in 1..Len(args) : args[i] = "zero Value"
       THEN pc' = "panicked" /\ UNCHANGED history
       ELSE pc' = "callback" /\ history' = Append(history, "callback")
    /\ UNCHANGED <<cbMade, doubleVars, log, failures, callback, args, waiting, wg, events, client,
                   bg, nOps, universe, twin, racers, building>>

----------------------------------------------------------------------------
(* The callback and the continuation it may leave running in the background *)

\* a Dial for another ensemble: a second client the callback builds and starts
OtherDialArgs == <<"otherString", DefaultTimeout, CanBeReadOnly>>

\* the operations the callback body makes on the doubles, with their arguments
CbCalls ==
    {<<"conn", "Close", <<>>>>,
     <<"dialer", "Dial", ClientDialArgs>>, <<"dialer", "Dial", OtherDialArgs>>,
     <<"compress", "Compress", <<"/a", "data">>>>}

\* the handles a goroutine holds: the callback its arguments, the continuation the
\* arguments of the callback that started it
Held(th) == IF th = "main" THEN args ELSE bg.held
Holds(th, obj) == \E i \in 1..Len(Held(th)) : Held(th)[i] = obj

\* the builder carries the dialer double and the compression double in its exported
\* fields ZookeeperDialer and CompressionProvider (lines 361, 363)
ThroughBuilder(th, d) == d \in {"dialer", "compress"} /\ Holds(th, "builder")

\* a double is invoked through its own handle, through the builder or, for the
\* connection and the compression provider, through the client
CanInvoke(th, d) ==
    Holds(th, d) \/ ThroughBuilder(th, d) \/ (d # "dialer" /\ Holds(th, "client"))

\* a double is programmed through its own handle or through the builder's field
CanProgram(th, d) == Holds(th, d) \/ ThroughBuilder(th, d)

\* the continuation is bounded by nothing in Test: it runs until the process dies
BgActive == bg.state = "running" /\ pc # "panicked"
Running(th) == IF th = "main" THEN pc = "callback" ELSE BgActive

\* the expectations Test has entered so far: one with each Dial chain (line 384) and
\* one with each Close chain (line 432) it has begun
HarnessProgrammed ==
    Len(SelectSeq(history, LAMBDA e : e \in {"Dial", "Close"}))
        + (IF pc \in {"dialOn", "dialReturn", "programmed", "closeOn", "closeReturn", "closing"}
           THEN 1 ELSE 0)

\* the expectations the callback and its continuation have entered
CbProgrammed ==
    Len(expected["conn"]) + Len(expected["dialer"]) + Len(expected["compress"])
        - HarnessProgrammed

\* the callback or its continuation programs an expectation on a double within its
\* reach, On(...).Return(...).Once(): the On
CbProgram ==
    /\ nOps < MaxCbOps
    /\ CbProgrammed < MaxCbExpect
    /\ nOps' = nOps + 1
    /\ UNCHANGED bg
    /\ \E th \in Threads : \E c \in CbCalls :
          /\ Running(th)
          /\ CanProgram(th, c[1])
          /\ ChainOn(th, c[1], c[2], CalledArgs(c[2], c[3]))
    /\ UNCHANGED <<called, operations, log, logLines, lastCall, multiLog, pc, failures,
                   callback, args, waiting, wg, events, client, history, cbMade, universe, twin,
                   racers>>

\* the Return of that chain
CbProgramReturn ==
    /\ \E th \in Threads :
          /\ Running(th)
          /\ building[th].stage = "on"
          /\ ChainReturn(th, Canned(expected[building[th].double][building[th].idx].method,
                                    "ok", building[th].idx))
    /\ UNCHANGED <<called, operations, log, logLines, lastCall, multiLog, pc, failures,
                   callback, args, waiting, wg, events, client, bg, history, cbMade, nOps, universe,
                   twin, racers>>

\* the Once of that chain
CbProgramOnce ==
    /\ \E th \in Threads :
          /\ Running(th)
          /\ ChainOnce(th)
    /\ UNCHANGED <<called, operations, log, logLines, lastCall, multiLog, pc, failures,
                   callback, args, waiting, wg, events, client, bg, history, cbMade, nOps, universe,
                   twin, racers>>

\* the callback or its continuation invokes an operation of a double; an unmatched
\* call panics
CbInvoke ==
    /\ nOps < MaxCbOps
    /\ nOps' = nOps + 1
    /\ UNCHANGED bg
    /\ \E th \in Threads : \E c \in CbCalls :
          /\ Running(th)
          /\ building[th] = NoChain
          /\ CanInvoke(th, c[1])
          /\ Serve(c[1], c[2], c[3])
          /\ building' = IF Traces(c[1], c[2], c[3])
                         THEN [building EXCEPT ![th] =
                                 [double |-> c[1], idx |-> Matched(c[1], c[2], c[3]),
                                  stage |-> "trace"]]
                         ELSE building
          /\ IF Panics(c[1], c[2], c[3])
             THEN pc' = "panicked" /\ UNCHANGED cbMade
             ELSE /\ pc' = pc
                  /\ cbMade' = IF c[2] \in {"Dial", "Close"}
                               THEN [cbMade EXCEPT ![c[2]] = @ + 1]
                               ELSE cbMade
    /\ UNCHANGED <<logLines, log, failures, callback, args, waiting, wg, events, client,
                   history, universe, twin, racers>>

\* the operation invoked hands its trace line to the log hook and returns (lines
\* 240-242 of Dial, 259-261 of Compress)
CbTrace ==
    /\ \E th \in Threads :
          /\ Running(th)
          /\ building[th].stage = "trace"
          /\ logLines' = Append(logLines, expected[building[th].double][building[th].idx].method)
          /\ building' = [building EXCEPT ![th] = NoChain]
    /\ UNCHANGED <<expected, called, operations, lastCall, multiLog, log, pc, failures,
                   callback, args, waiting, wg, events, client, bg, history, cbMade, nOps, universe,
                   twin, racers>>

\* the callback hands work to a background continuation, which keeps its handles
CbSpawn ==
    /\ pc = "callback"
    /\ building["main"] = NoChain
    /\ bg = NoBg
    /\ bg' = [state |-> "running", held |-> args]
    /\ UNCHANGED <<doubleVars, log, pc, failures, callback, args, waiting, wg, events,
                   client, history, cbMade, nOps, universe, twin, racers, building>>

\* wg.Done() by the callback or its continuation; a negative counter panics, and the
\* Done that brings the counter to zero releases Test when it is parked in Wait
CbDone ==
    /\ nOps < MaxCbOps
    /\ nOps' = nOps + 1
    /\ UNCHANGED bg
    /\ \E th \in Threads :
          /\ Running(th)
          /\ building[th] = NoChain
          /\ Holds(th, "wg")
    /\ IF wg = 0 THEN pc' = "panicked" /\ wg' = wg /\ UNCHANGED history
       ELSE /\ pc' = IF pc = "parked" /\ wg = 1 THEN "released" ELSE pc
            /\ wg' = wg - 1
            /\ history' = Append(history, "Done")
    /\ UNCHANGED <<cbMade, doubleVars, log, failures, callback, args, waiting, events, client,
                   universe, twin, racers, building>>

\* wg.Add(1) by the callback or its continuation on the wait group it was handed
CbAdd ==
    /\ nOps < MaxCbOps
    /\ nOps' = nOps + 1
    /\ \E th \in Threads :
          /\ Running(th)
          /\ building[th] = NoChain
          /\ Holds(th, "wg")
    /\ wg' = wg + 1
    /\ history' = Append(history, "Add")
    /\ UNCHANGED <<cbMade, doubleVars, log, pc, failures, callback, args, waiting, events, client, bg,
                   universe, twin, racers, building>>

\* close(ev) by the callback or its continuation on the event channel it was handed;
\* closing a closed channel panics
CbCloseEvents ==
    /\ nOps < MaxCbOps
    /\ nOps' = nOps + 1
    /\ \E th \in Threads :
          /\ Running(th)
          /\ building[th] = NoChain
          /\ Holds(th, "events")
    /\ IF events = "closed"
       THEN pc' = "panicked" /\ UNCHANGED <<events, cbMade>>
       ELSE /\ pc' = pc
            /\ events' = "closed"
            /\ cbMade' = [cbMade EXCEPT !["close(events)"] = @ + 1]
    /\ UNCHANGED <<doubleVars, log, failures, callback, args, waiting, wg, client, bg,
                   history, universe, twin, racers, building>>

\* the callback returns to Test
CbReturn ==
    /\ pc = "callback"
    /\ building["main"] = NoChain
    /\ pc' = "returned"
    /\ history' = Append(history, "return")
    /\ UNCHANGED <<cbMade, doubleVars, log, failures, callback, args, waiting, wg, events, client,
                   bg, nOps, universe, twin, racers, building>>

----------------------------------------------------------------------------
(* Teardown *)

\* variant: Test goes on without waiting
TestWaitNoBlock ==
    /\ pc = "returned"
    /\ pc' = "waited"
    /\ history' = IF waiting THEN history \o <<"wait", "Wait">> ELSE history
    /\ UNCHANGED <<cbMade, doubleVars, log, failures, callback, args, waiting, wg, events, client,
                   bg, nOps, universe, twin, racers, building>>

\* lines 428-429: Test enters wg.Wait() when a wait group was handed out; Wait reads
\* the counter, goes on to return when it is zero and parks Test otherwise
TestWait ==
    /\ pc = "returned"
    /\ pc' = IF ~waiting THEN "waited" ELSE IF wg = 0 THEN "waitSeen" ELSE "parked"
    /\ history' = IF waiting THEN Append(history, "wait") ELSE history
    /\ UNCHANGED <<cbMade, doubleVars, log, failures, callback, args, waiting, wg, events, client,
                   bg, nOps, universe, twin, racers, building>>

\* line 429: released by the Done that brought the counter to zero, Wait reads the
\* counter again; a unit added in between panics "WaitGroup is reused before previous
\* Wait has returned"
TestWaitWake ==
    /\ pc = "released"
    /\ pc' = IF wg = 0 THEN "waitSeen" ELSE "panicked"
    /\ UNCHANGED <<doubleVars, log, failures, callback, args, waiting, wg, events, client,
                   bg, history, cbMade, nOps, universe, twin, racers, building>>

\* lines 429-430: Wait returns to Test; the counter is no longer looked at
TestWaitReturn ==
    /\ pc = "waitSeen"
    /\ pc' = "waited"
    /\ history' = Append(history, "Wait")
    /\ UNCHANGED <<cbMade, doubleVars, log, failures, callback, args, waiting, wg, events, client,
                   bg, nOps, universe, twin, racers, building>>

\* variant: the Close is programmed before the callback is invoked
TestProgramCloseBeforeCall ==
    /\ pc = "resolved"
    /\ \A i \in 1..Len(expected["conn"]) : expected["conn"][i].method # "Close"
    /\ expected' = [expected EXCEPT !["conn"] = On(@, "Close", <<>>, <<>>, 1)]
    /\ UNCHANGED <<pc, called, operations, log, logLines, lastCall, multiLog, failures,
                   callback, args, waiting, wg, events, client, bg, history, cbMade, nOps, universe,
                   twin, racers, building>>

\* variant: the Close is programmed before the wait on the wait group
TestProgramCloseBeforeWait ==
    /\ pc = "returned"
    /\ \A i \in 1..Len(expected["conn"]) : expected["conn"][i].method # "Close"
    /\ expected' = [expected EXCEPT !["conn"] = On(@, "Close", <<>>, <<>>, 1)]
    /\ UNCHANGED <<pc, called, operations, log, logLines, lastCall, multiLog, failures,
                   callback, args, waiting, wg, events, client, bg, history, cbMade, nOps, universe,
                   twin, racers, building>>

\* line 432, c.conn.On("Close"): the Close expectation is entered in the connection double
TestProgramClose ==
    /\ pc = "waited"
    /\ ChainOn("main", "conn", "Close", <<>>)
    /\ pc' = "closeOn"
    /\ UNCHANGED <<called, operations, log, logLines, lastCall, multiLog, failures, callback,
                   args, waiting, wg, events, client, bg, history, cbMade, nOps, universe, twin, racers>>

\* line 432, .Return()
TestProgramCloseReturn ==
    /\ pc = "closeOn"
    /\ ChainReturn("main", <<>>)
    /\ pc' = "closeReturn"
    /\ UNCHANGED <<called, operations, log, logLines, lastCall, multiLog, failures, callback,
                   args, waiting, wg, events, client, bg, history, cbMade, nOps, universe, twin, racers>>

\* line 432, .Once()
TestProgramCloseOnce ==
    /\ pc = "closeReturn"
    /\ ChainOnce("main")
    /\ pc' = "closing"
    /\ UNCHANGED <<called, operations, log, logLines, lastCall, multiLog, failures, callback,
                   args, waiting, wg, events, client, bg, history, cbMade, nOps, universe, twin, racers>>

\* line 434: the client is closed and closes its connection
TestClose ==
    /\ pc = "closing"
    /\ ClientClose
    /\ IF Panics("conn", "Close", <<>>)
       THEN pc' = "panicked" /\ UNCHANGED <<client, history, cbMade>>
       ELSE /\ pc' = "closed"
            /\ client' = "closed"
            /\ history' = Append(history, "Close")
    /\ UNCHANGED <<cbMade, log, failures, callback, args, waiting, wg, events, bg, nOps, universe, twin, racers, building>>

\* variant: the channel is closed before the client is
TestCloseEventsBeforeClose ==
    /\ pc = "closing"
    /\ events = "open"
    /\ events' = "closed"
    /\ history' = Append(history, "close(events)")
    /\ UNCHANGED <<cbMade, doubleVars, log, pc, failures, callback, args, waiting, wg, client, bg,
                   nOps, universe, twin, racers, building>>

\* line 436: close(c.events); closing a closed channel panics
TestCloseEvents ==
    /\ pc = "closed"
    /\ IF events = "closed"
       THEN /\ pc' = "panicked"
            /\ history' = Append(history, "close of closed channel")
            /\ UNCHANGED events
       ELSE /\ pc' = "eventsClosed"
            /\ events' = "closed"
            /\ history' = Append(history, "close(events)")
    /\ UNCHANGED <<cbMade, doubleVars, log, failures, callback, args, waiting, wg, client, bg, nOps,
                   universe, twin, racers, building>>

\* AssertExpectations(t) on double d: its unmet expectations are reported
AssertDouble(d) ==
    /\ failures' = IF AssertExpectationsOK(expected[d], called[d]) THEN failures
                   ELSE failures \cup {<<"unmet expectations", d>>}
    /\ UNCHANGED <<doubleVars, log, callback, args, waiting, wg, events, client, bg, history, cbMade,
                   nOps, universe, twin, racers, building>>

\* line 438: c.conn.AssertExpectations(t)
TestAssertConn == pc = "eventsClosed" /\ AssertDouble("conn") /\ pc' = "assertedConn"

\* line 439: c.dialer.AssertExpectations(t)
TestAssertDialer == pc = "assertedConn" /\ AssertDouble("dialer") /\ pc' = "assertedDialer"

\* variant: the compression double is left unchecked
TestAssertWithoutCompress ==
    /\ pc = "assertedDialer"
    /\ pc' = "done"
    /\ UNCHANGED <<doubleVars, log, failures, callback, args, waiting, wg, events, client, bg,
                   history, cbMade, nOps, universe, twin, racers, building>>

\* line 440: c.compress.AssertExpectations(t); Test returns
TestAssertCompress == pc = "assertedDialer" /\ AssertDouble("compress") /\ pc' = "done"

Next ==
    \/ TestSetLog \/ TestBuild
    \/ TestProgramDial \/ TestProgramDialReturn \/ TestProgramDialOnce
    \/ TestStart \/ TestStarted \/ TestReflect \/ TestResolve \/ TestCall
    \/ CbProgram \/ CbProgramReturn \/ CbProgramOnce
    \/ CbInvoke \/ CbTrace \/ CbSpawn \/ CbDone \/ CbAdd \/ CbCloseEvents \/ CbReturn
    \/ TestWait \/ TestWaitWake \/ TestWaitReturn
    \/ TestProgramClose \/ TestProgramCloseReturn \/ TestProgramCloseOnce
    \/ TestClose \/ TestCloseEvents
    \/ TestAssertConn \/ TestAssertDialer \/ TestAssertCompress

Spec == Init /\ [][Next]_vars

\* the steps of the goroutine that runs Test; it is scheduled whenever it can go on
TestStep ==
    \/ TestSetLog \/ TestBuild
    \/ TestProgramDial \/ TestProgramDialReturn \/ TestProgramDialOnce
    \/ TestStart \/ TestStarted \/ TestReflect \/ TestResolve \/ TestCall
    \/ TestWait \/ TestWaitWake \/ TestWaitReturn
    \/ TestProgramClose \/ TestProgramCloseReturn \/ TestProgramCloseOnce
    \/ TestClose \/ TestCloseEvents
    \/ TestAssertConn \/ TestAssertDialer \/ TestAssertCompress

\* one run under a fair scheduler: the orchestrator is never starved; nothing obliges
\* the callback to return or its continuation to mark the unit done
SpecFair == Init /\ [][Next]_vars /\ WF_vars(TestStep)

----------------------------------------------------------------------------
(* Several harness runs on one orchestrator *)

\* Test is called again on the same mockZookeeperClient, with the same callback or
\* with one that takes no parameter: its local variables start afresh, the fields of
\* the orchestrator are as the previous run left them, and a continuation of the
\* previous run goes on with the handles it holds
TestAgain ==
    /\ pc = "done"
    /\ pc' = "start"
    /\ callback' \in {callback, [kind |-> "func", sig |-> <<>>]}
    /\ args' = <<>>
    /\ waiting' = FALSE
    /\ client' = "none"
    /\ UNCHANGED <<doubleVars, log, failures, wg, events, bg, history, cbMade, nOps,
                   universe, twin, racers, building>>

NextRuns == Next \/ TestAgain

SpecRuns == Init /\ [][NextRuns]_vars

----------------------------------------------------------------------------
(* Properties *)

Count(seq, x) == Len(SelectSeq(seq, LAMBDA e : e = x))
First(seq, x) == Min({i \in 1..Len(seq) : seq[i] = x})
IsSuffix(t, seq) ==
    /\ Len(t) <= Len(seq)
    /\ \A i \in 1..Len(t) : seq[Len(seq) - Len(t) + i] = t[i]

RECURSIVE SumLen(_)
SumLen(ss) == IF ss = <<>> THEN 0 ELSE Len(Head(ss)) + SumLen(Tail(ss))

Ended == pc \in {"done", "panicked"}
Dials == Count(history, "Dial") + cbMade["Dial"]
Closes == Count(history, "Close") + cbMade["Close"]

\* C1 as stated: every harness run whose callback was invoked has, once it has ended,
\* made exactly one Dial and exactly one Close, the Dial first, and closed the event
\* channel after the Close.
C1_EveryRunDialsAndClosesOnce ==
    (Ended /\ Count(history, "callback") = 1) =>
        /\ Dials = 1
        /\ Closes = 1
        /\ Count(history, "close(events)") = 1

\* C1 amended: a harness run that reaches the end of Test, and whose callback and
\* continuation made no successful Dial or Close of their own on the doubles, has made exactly one Dial and one
\* Close, the Dial before the Close, and closed the event channel once, after the Close;
\* and in every run, ended or not, the client's Close comes after its Dial and the
\* orchestrator closes the channel only after that Close has returned.
C1_CompletedRunDialsAndClosesOnce ==
    /\ Count(history, "Dial") <= 1 /\ Count(history, "Close") <= 1
    /\ Count(history, "Close") = 1 =>
          Count(history, "Dial") = 1 /\ First(history, "Dial") < First(history, "Close")
    /\ Count(history, "close(events)") > 0 =>
          /\ events = "closed"
          /\ Count(history, "close(events)") = 1
          /\ Count(history, "Close") = 1
          /\ First(history, "Close") < First(history, "close(events)")
    /\ (pc = "done" /\ cbMade["Dial"] = 0 /\ cbMade["Close"] = 0) =>
          /\ Dials = 1 /\ Closes = 1
          /\ events = "closed"

C1_Witness ==
    /\ pc = "done"
    /\ history = <<"Dial", "callback", "return", "Close", "close(events)">>
    /\ nOps > 0

\* C2: every Multi invocation has its sub-operations at the end of the recorded
\* sequence when its outcome is observed, also when no expectation matched (the call
\* panicked) or the programmed result is an error.
C2_MultiRecordsBeforeLookup ==
    lastCall.method = "Multi" => IsSuffix(lastCall.args[1], operations)

C2_Witness ==
    /\ lastCall.method = "Multi"
    /\ lastCall.panicked
    /\ lastCall.matched = 0
    /\ operations = <<"op1", "op2">>

\* C3: the recorded sequence is the concatenation, in invocation order, of the
\* sub-operations of all Multi invocations made, whatever their outcome; nothing else
\* changes it.
C3_OperationsAreAllMultiOps ==
    /\ operations = Flatten(multiLog)
    /\ Len(operations) = SumLen(multiLog)

C3_Witness ==
    /\ Len(multiLog) = 2
    /\ Len(operations) = 3
    /\ lastCall.method = "Multi" /\ lastCall.panicked
    /\ \E i \in 1..Len(expected["conn"]) :
          expected["conn"][i].method = "Multi" /\ expected["conn"][i].total = 1

TeardownPcs ==
    {"closeOn", "closeReturn", "closing", "closed", "eventsClosed", "assertedConn",
     "assertedDialer", "done"}

TeardownBegun ==
    \/ pc \in TeardownPcs
    \/ client = "closed"
    \/ Count(history, "close(events)") > 0

\* C4 as stated: when the callback declares the wait group, the pending unit is
\* registered before the callback is invoked, and teardown (programming the Close,
\* closing the client, closing the event channel) never goes on while the count is
\* non-zero.
C4_TeardownWaitsForDone ==
    (callback.kind = "func" /\ \E i \in 1..Len(callback.sig) : callback.sig[i] = "*sync.WaitGroup") =>
        /\ pc = "resolved" => (waiting /\ wg >= 1)
        /\ (pc = "callback" /\ nOps = 0) => wg >= 1
        /\ TeardownBegun => wg = 0

\* the wait-group counter after the first n events of the run
PendingAfter(n) ==
    WaitGroupAdds(callback.sig) + Count(SubSeq(history, 1, n), "Add")
        - Count(SubSeq(history, 1, n), "Done")

\* C4 amended: when the callback declares the wait group, the pending unit is
\* registered before the callback is invoked, and teardown begins only after the wait
\* has returned, which it does only after the callback has returned and, at some
\* moment since Test entered the wait, every unit registered or added until then was
\* marked done. A unit added after that moment is not waited for: the count can be
\* non-zero when the wait returns and while teardown runs.
C4_TeardownBeginsAfterWaitSawZero ==
    (callback.kind = "func" /\ \E i \in 1..Len(callback.sig) : callback.sig[i] = "*sync.WaitGroup") =>
        /\ pc = "resolved" => (waiting /\ wg >= 1)
        /\ (pc = "callback" /\ nOps = 0) => wg >= 1
        /\ Count(history, "Wait") <= 1
        /\ Count(history, "Wait") = 1 =>
              /\ Count(history, "return") = 1
              /\ Count(history, "wait") = 1
              /\ First(history, "return") < First(history, "wait")
              /\ First(history, "wait") < First(history, "Wait")
              /\ \E n \in First(history, "wait")..First(history, "Wait") :
                    PendingAfter(n) = 0
              /\ Count(SubSeq(history, 1, First(history, "Wait")), "Done") >= 1
        /\ TeardownBegun => Count(history, "Wait") = 1

C4_Witness ==
    /\ pc = "done"
    /\ waiting
    /\ bg.state = "running"
    /\ wg = 1
    /\ history = <<"Dial", "callback", "return", "wait", "Done", "Add", "Wait", "Close",
                   "close(events)">>

HasParam(T) == callback.kind = "func" /\ \E i \in 1..Len(callback.sig) : callback.sig[i] \in T

\* the recognized set as C5 and C6 list it
ListedTypes ==
    {"*CuratorFrameworkBuilder", "CuratorFramework", "ZookeeperConnection", "*mockConn",
     "ZookeeperDialer", "*mockZookeeperDialer", "chan zk.Event", "*sync.WaitGroup"}

BeforeStart == {"start", "logging", "built", "dialOn", "dialReturn", "programmed"}
BeforeResolve == pc \in BeforeStart \cup {"dialled", "started", "reflected"}
BeforeResolveOrResolved == BeforeStart \cup {"dialled", "started", "reflected", "resolved"}

\* C5 as stated: a callback declaring a parameter type outside the listed set is never
\* invoked.
C5_UnlistedTypeNeverInvoked ==
    HasParam(ParamTypes \ ListedTypes) => Count(history, "callback") = 0

\* C5 amended: the recognized set also holds the concrete compression double; a callback
\* declaring a parameter type outside that set is never invoked, and once the parameters
\* are resolved a failure naming each such type has been reported and the run ends in a
\* panic of the reflective call.
C5_ForeignTypeFailsBeforeCall ==
    HasParam(ParamTypes \ (ListedTypes \cup {"*mockCompressionProvider"})) =>
        /\ Count(history, "callback") = 0
        /\ pc \notin {"callback", "returned", "parked", "released", "waitSeen", "waited"} \cup TeardownPcs
        /\ ~BeforeResolve =>
              \A i \in 1..Len(callback.sig) :
                 callback.sig[i] \notin (ListedTypes \cup {"*mockCompressionProvider"})
                    => <<"unknown arg type", callback.sig[i]>> \in failures

C5_Witness ==
    /\ pc = "panicked"
    /\ callback.kind = "func" /\ callback.sig = <<"*mockConn", "CompressionProvider">>
    /\ failures = {<<"unknown arg type", "CompressionProvider">>}
    /\ args = <<"conn", "zero Value">>

\* the object C6 assigns to each listed type
ListedObject(t) ==
    CASE t = "*CuratorFrameworkBuilder" -> "builder"
      [] t = "CuratorFramework" -> "client"
      [] t \in {"ZookeeperConnection", "*mockConn"} -> "conn"
      [] t \in {"ZookeeperDialer", "*mockZookeeperDialer"} -> "dialer"
      [] t = "chan zk.Event" -> "events"
      [] t = "*sync.WaitGroup" -> "wg"

\* C6: a callback whose parameters are all of listed types is invoked exactly once, and
\* every slot holds the object of its declared type.
C6_ListedSignatureIsInvokedWithMatchingArgs ==
    (callback.kind = "func" /\ \A i \in 1..Len(callback.sig) : callback.sig[i] \in ListedTypes) =>
        /\ Count(history, "callback") <= 1
        /\ (pc \notin BeforeResolveOrResolved) => Count(history, "callback") = 1
        /\ (pc = "resolved" \/ Count(history, "callback") = 1) =>
              /\ Len(args) = Len(callback.sig)
              /\ \A i \in 1..Len(args) : args[i] = ListedObject(callback.sig[i])

C6_Witness ==
    /\ pc = "done"
    /\ callback.kind = "func" /\ callback.sig = <<"ZookeeperDialer", "ZookeeperConnection">>
    /\ args = <<"dialer", "conn">>
    /\ Count(history, "callback") = 1

Exhausted(d, m, a) ==
    /\ \E i \in 1..Len(expected[d]) : expected[d][i].method = m /\ expected[d][i].args = a
    /\ \A i \in 1..Len(expected[d]) :
          (expected[d][i].method = m /\ expected[d][i].args = a) => expected[d][i].rep = -1

\* C7 as stated: an expectation programmed exactly-once is consumed at most once; an
\* invocation that finds its expectations exhausted panics and returns nothing; and the
\* Closes the connection double served never outnumber the Close expectations programmed
\* on it (a second Close where one was programmed is detected).
C7_OnceExpectationNotServedTwice ==
    /\ \A d \in Doubles : \A i \in 1..Len(expected[d]) :
          expected[d][i].rep # 0 =>
             /\ expected[d][i].total <= 1
             /\ expected[d][i].total = 1 <=> expected[d][i].rep = -1
    /\ (lastCall.method # "none" /\ lastCall.matched = 0
          /\ Exhausted(lastCall.double, lastCall.method, lastCall.args)) =>
             lastCall.panicked /\ lastCall.result = <<>> /\ pc = "panicked"
    /\ Closes <= Cardinality({i \in 1..Len(expected["conn"]) :
                                 expected["conn"][i].method = "Close"})

NoMatchingExpectation(d, m, a) ==
    ~ \E i \in 1..Len(expected[d]) :
         expected[d][i].method = m /\ expected[d][i].rep > -1 /\ expected[d][i].args = a

\* C8: an invocation of any operation of the three doubles for which no expectation of
\* that name and those arguments is programmed panics, returns nothing, and leaves every
\* expectation as it was.
C8_UnprogrammedCallFailsHard ==
    [][(nOps' = nOps + 1 /\ lastCall'.method # "none"
          /\ NoMatchingExpectation(lastCall'.double, lastCall'.method, lastCall'.args)) =>
            /\ lastCall'.panicked
            /\ lastCall'.result = <<>>
            /\ lastCall'.matched = 0
            /\ expected' = expected
            /\ called' = called]_vars

C8_Witness ==
    /\ lastCall.method = "ExistsW" /\ lastCall.panicked /\ lastCall.matched = 0
    /\ Len(expected["conn"]) = 2
    /\ \E i \in 1..2 : expected["conn"][i].method = "Exists" /\ expected["conn"][i].args = lastCall.args
    /\ \E i \in 1..2 : expected["conn"][i].total = 1

NeverInvoked(d, e) == e.total = 0 /\ ~MethodWasCalled(called[d], e.method, e.args)

\* C9 as stated: when Test returns it has closed the client and the event channel, and
\* every double holding, at that moment, an expectation that was never invoked has a
\* teardown failure reported for it.
C9_TeardownReportsUnmetExpectations ==
    [][(pc = "assertedDialer" /\ pc' = "done") =>
          /\ client' = "closed" /\ events' = "closed"
          /\ \A d \in Doubles :
                (\E i \in 1..Len(expected'[d]) :
                    /\ expected'[d][i].total = 0
                    /\ ~MethodWasCalled(called'[d], expected'[d][i].method, expected'[d][i].args))
                   => <<"unmet expectations", d>> \in failures']_vars

\* the double checked by the step Test takes from each position of the assertions
CheckedAt(p) ==
    CASE p = "eventsClosed" -> "conn"
      [] p = "assertedConn" -> "dialer"
      [] p = "assertedDialer" -> "compress"

AfterCheck(p) ==
    CASE p = "eventsClosed" -> "assertedConn"
      [] p = "assertedConn" -> "assertedDialer"
      [] p = "assertedDialer" -> "done"

\* C9 amended: the doubles are checked one after the other (connection, dialer,
\* provider), after the client and the event channel are closed; a double that holds
\* an expectation never invoked at the moment of its own check has a teardown failure
\* reported, and none is reported for it only if every expectation it then holds was
\* invoked (served itself, or its operation and arguments served by an equal
\* expectation) and no expectation limited to a number of calls has calls left. What a
\* continuation still running programs on a double after that double's check is not
\* examined.
C9_EachDoubleCheckedAtItsTurn ==
    /\ [](pc \in {"eventsClosed", "assertedConn", "assertedDialer", "done"} =>
             client = "closed" /\ events = "closed")
    /\ [][(pc \in {"eventsClosed", "assertedConn", "assertedDialer"}
             /\ pc' \notin {pc, "panicked"}) =>
               /\ pc' = AfterCheck(pc)
               /\ (\E i \in 1..Len(expected[CheckedAt(pc)]) :
                       NeverInvoked(CheckedAt(pc), expected[CheckedAt(pc)][i]))
                      => <<"unmet expectations", CheckedAt(pc)>> \in failures'
               /\ <<"unmet expectations", CheckedAt(pc)>> \notin failures'
                      => \A i \in 1..Len(expected[CheckedAt(pc)]) :
                            /\ ~NeverInvoked(CheckedAt(pc), expected[CheckedAt(pc)][i])
                            /\ expected[CheckedAt(pc)][i].rep <= 0]_vars

C9_Witness ==
    /\ pc = "done"
    /\ failures = {<<"unmet expectations", "compress">>}
    /\ Len(expected["compress"]) = 1
    /\ expected["compress"][1].total = 0
    /\ \A i \in 1..Len(expected["conn"]) : expected["conn"][i].total = 1

\* C10 as stated: an invocation is served only by an expectation of the same operation
\* name with equal arguments, and hands back exactly the canned results of that
\* expectation, the canned event channel of the watched variants included.
C10_CannedResultsReturned ==
    (lastCall.method # "none" /\ lastCall.matched # 0) =>
        LET e == expected[lastCall.double][lastCall.matched] IN
        /\ e.method = lastCall.method
        /\ e.args = lastCall.args
        /\ Len(lastCall.result) = Len(e.ret)
        /\ \A i \in 1..Len(e.ret) : lastCall.result[i].val = e.ret[i].val

FirstUnresolved(sig) == Min({i \in 1..Len(sig) : ResolveArg(sig[i]) = "zero Value"})

\* C11 as stated: once the orchestrator has reported a failure it performs no further
\* step of the run: after the report of an unsupported parameter type no later slot is
\* resolved and no unit is registered for it, the callback is not invoked, the Close is
\* not programmed and the client is not closed.
C11_FailureStopsTheRun ==
    failures # {} =>
        /\ Count(history, "callback") = 0
        /\ Count(history, "Close") = 0
        /\ UnknownArgFailures(callback.sig) # {} =>
              /\ \A j \in 1..Len(args) :
                    j > FirstUnresolved(callback.sig) => args[j] = "zero Value"
              /\ wg = WaitGroupAdds(SubSeq(callback.sig, 1, FirstUnresolved(callback.sig)))

\* the expectation Test programs on the dialer double at line 384
HarnessDial ==
    [method |-> "Dial", args |-> <<ConnectString, DefaultTimeout, CanBeReadOnly>>,
     ret |-> <<TheConn, TheEvents, Nil>>]

DialExpectation(e) == [method |-> e.method, args |-> e.args, ret |-> e.ret]

\* C12: once Test has programmed the dialer double, its first expectation is the one
\* Dial with (connect string, default timeout, read-only flag) returning (connection
\* double, event channel, no error), valid once, and it is the only one Test adds; the
\* client's Dial with that triple is served the connection double and the channel, and
\* a Dial with a different triple that no expectation of the callback's own covers
\* matches nothing and panics.
C12_OneDialProgrammedAndMatchedExactly ==
    /\ pc \in {"start", "logging", "built"} => expected["dialer"] = <<>>
    /\ pc \notin {"start", "logging", "built"} =>
          /\ Len(expected["dialer"]) >= 1
          /\ expected["dialer"][1].method = HarnessDial.method
          /\ expected["dialer"][1].args = HarnessDial.args
          /\ nOps = 0 => Len(expected["dialer"]) = 1
    /\ pc \notin {"start", "logging", "built", "dialOn", "dialReturn"} =>
          /\ DialExpectation(expected["dialer"][1]) = HarnessDial
          /\ expected["dialer"][1].rep \in {1, -1}
    /\ pc = "started" =>
          /\ lastCall.args = ClientDialArgs /\ lastCall.matched = 1
          /\ lastCall.result = <<TheConn, TheEvents, Nil>>
    /\ (lastCall.method = "Dial" /\ lastCall.args # HarnessDial.args
          /\ \A i \in 1..Len(expected["dialer"]) :
                 expected["dialer"][i].args = HarnessDial.args) =>
          lastCall.panicked /\ pc = "panicked"

C12_Witness ==
    /\ pc = "panicked"
    /\ lastCall.method = "Dial" /\ lastCall.args = OtherDialArgs /\ lastCall.panicked
    /\ Len(expected["dialer"]) = 1
    /\ expected["dialer"][1].rep = -1

\* C13 as stated: the Dial is programmed on the dialer double first and the client is
\* built only then (a built client always finds the Dial expectation in place), the
\* build dials nothing, and the Dial occurs only at the client's start.
C13_DialProgrammedBeforeBuild ==
    /\ client # "none" => Len(expected["dialer"]) >= 1
    /\ pc \in BeforeStart => lastCall = NoCall
    /\ Count(history, "Dial") >= 1 => client \in {"started", "closed"}

\* C13 amended: the client is built first (line 382) and the Dial is programmed on the
\* dialer double only then (line 384); neither step dials, and the Dial occurs only at
\* the client's start.
C13_BuildThenProgramThenDial ==
    /\ Len(expected["dialer"]) >= 1 => client # "none"
    /\ pc = "built" => client = "built" /\ expected["dialer"] = <<>>
    /\ pc \in BeforeStart =>
          /\ lastCall = NoCall /\ history = <<>>
          /\ \A d \in Doubles : called[d] = {}
    /\ Count(history, "Dial") >= 1 => client \in {"started", "closed"}

C13_Witness ==
    /\ pc = "programmed" /\ client = "built"
    /\ Len(expected["dialer"]) = 1 /\ expected["dialer"][1].total = 0
    /\ lastCall = NoCall

ClientStarted == client \in {"started", "closed"}
Programmed == Len(expected["conn"]) + Len(expected["dialer"]) + Len(expected["compress"])

\* C14 as stated: every expectation is programmed before the client is started; from
\* the start of the client to the end of the run no expectation is added to any double,
\* so the doubles hold the one Dial expectation and nothing else.
C14_NoProgrammingAfterStart ==
    ClientStarted => Programmed = 1

\* C14 amended: only the Dial is programmed before the client is started. After the
\* start the orchestrator adds exactly one expectation, the Close on the connection
\* double, and only at teardown (after the callback has returned and the wait is
\* over); every other expectation present was added by the callback or by its
\* continuation, which may go on programming after the client is closed.
C14_OnlyDialProgrammedBeforeStart ==
    /\ pc = "programmed" => Programmed = 1 /\ expected["dialer"][1].method = "Dial"
    /\ ClientStarted =>
          /\ Programmed <= nOps + (IF TeardownBegun \/ pc = "panicked" THEN 2 ELSE 1)
          /\ nOps = 0 =>
                /\ Len(expected["dialer"]) = 1 /\ Len(expected["compress"]) = 0
                /\ Len(expected["conn"]) = IF TeardownBegun THEN 1 ELSE 0
                /\ \A i \in 1..Len(expected["conn"]) : expected["conn"][i].method = "Close"

C14_Witness ==
    /\ pc = "closing" /\ client = "started" /\ nOps = 0
    /\ Len(expected["conn"]) = 1 /\ expected["conn"][1].method = "Close"
    /\ expected["dialer"][1].total = 1

\* C15: for every operation of the connection, dialer, compression and ensure-path
\* doubles and every sequence of calls, the doubles with the log hook set and the
\* doubles without it agree on the expectation matched by the latest call, on what it
\* returned or that it panicked, on every expectation's consumption count and
\* remaining repeatability, on the calls recorded and on the recorded operations;
\* only the trace lines differ.
C15_TracingChangesNothing ==
    /\ \A d \in TraceDoubles : twin.log[d] = ~log[d]
    /\ twin.lastCall = lastCall
    /\ twin.expected = expected
    /\ twin.called = called
    /\ twin.operations = operations
    /\ Len(IF log["conn"] THEN twin.logLines ELSE logLines) = 0

C15_Witness ==
    /\ ~log["conn"] /\ twin.log["conn"]
    /\ lastCall.method = "Multi" /\ ~lastCall.panicked /\ lastCall.matched = 2
    /\ Len(twin.logLines) = 2 /\ logLines = <<>>
    /\ Len(operations) = 3
    /\ expected["conn"][1].total = 1

\* C16 as stated: a callback that declares the wait group has exactly one unit
\* registered, however many of its parameters have that type, so that one Done by
\* its continuation releases the orchestrator: after the callback has returned and
\* one Done was made, the wait is over (the callback adding no unit of its own).
C16_OneUnitPerRun ==
    /\ (pc \in {"resolved", "callback", "returned", "parked"} /\ HasParam({"*sync.WaitGroup"})
          /\ Count(history, "Done") = 0 /\ Count(history, "Add") = 0) => wg = 1
    /\ (pc = "returned" /\ Count(history, "Done") = 1 /\ Count(history, "Add") = 0) => wg = 0

\* C17 as stated: the event channel is closed exactly once, at teardown after the
\* client close, and over any sequence of harness runs on an orchestrator no run
\* closes it a second time (the callbacks leaving the channel alone).
C17_NeverClosedASecondTime ==
    cbMade["close(events)"] = 0 =>
        /\ Count(history, "close(events)") <= 1
        /\ events = "closed" <=> Count(history, "close(events)") = 1
        /\ events = "closed" => First(history, "Close") < First(history, "close(events)")
        /\ Count(history, "close of closed channel") = 0

\* C18 as stated: while the unit of a callback that declares the wait group has not
\* been marked done, teardown does not begin (no Close programmed, client not closed,
\* channel not closed); and under fair scheduling, once the callback has returned and
\* the unit has been marked done, the run reaches the end of Test or aborts (unless
\* the callback or its continuation adds a unit of its own).
C18_HangsUntilDoneThenTerminates ==
    /\ [](HasParam({"*sync.WaitGroup"}) /\ Count(history, "Done") = 0 => ~TeardownBegun)
    /\ (Count(history, "return") = 1 /\ Count(history, "Done") >= 1)
          ~> (Ended \/ Count(history, "Add") > 0)

AllReturned == \A g \in Goroutines : racers[g].at = "idle"

\* C19 as stated: when Multi invocations on one connection double run concurrently,
\* then after all of them have returned the recorded operations hold every
\* sub-operation of every invocation exactly once, and as many entries as the
\* invocations had sub-operations together.
C19_ConcurrentMultiLosesNothing ==
    AllReturned =>
        /\ Len(operations) = SumLen(multiLog)
        /\ \A op \in {"op1", "op2"} :
              Count(operations, op) = Count(Flatten(multiLog), op)

CloseExpectations(exps) == Cardinality({i \in 1..Len(exps) : exps[i].method = "Close"})

\* C20: the orchestrator adds a Close expectation to the connection double only in
\* the step after the callback has returned and the wait is over; until then the
\* double holds no Close expectation but those the callback programmed itself, and a
\* Close the callback makes on the connection double without programming one matches
\* nothing and panics.
C20_CloseProgrammedOnlyAtTeardown ==
    /\ [][(CloseExpectations(expected'["conn"]) > CloseExpectations(expected["conn"])
             /\ nOps' = nOps) =>
               /\ pc = "waited" /\ pc' = "closeOn"
               /\ Count(history, "return") = 1
               /\ waiting => Count(history, "Wait") = 1]_vars
    /\ []((pc \in {"resolved", "callback", "returned", "parked", "released", "waitSeen",
                  "waited"} /\ nOps = 0) =>
             CloseExpectations(expected["conn"]) = 0)
    /\ []((lastCall.method = "Close" /\ nOps = 1 /\ Count(history, "Close") = 0
             /\ CloseExpectations(expected["conn"]) = 0) =>
               lastCall.panicked /\ lastCall.matched = 0 /\ pc = "panicked")

C20_Witness ==
    /\ pc = "panicked" /\ Count(history, "callback") = 1
    /\ lastCall.method = "Close" /\ lastCall.panicked /\ lastCall.matched = 0
    /\ nOps = 1 /\ expected["conn"] = <<>>

====
